---- MODULE Spec2Model ----
(***************************************************************************)
(* A model of tally (src/main.rs): a time(1) substitute that launches a    *)
(* command, waits for it, samples getrusage(RUSAGE_CHILDREN) and writes a  *)
(* report to stderr in one of four formats before exiting.                 *)
(*                                                                         *)
(* Conventions of the model                                                *)
(*   - a Rust String / byte string is a sequence of Unicode scalar values  *)
(*     (';' is 59, 'e' is 101, 'é' is 233, '0'..'9' are 48..57);           *)
(*   - Option<T> is a sequence: None is << >>, Some(x) is <<x>>;           *)
(*   - a u64 count of nanoseconds is a two-limb number [s, f] in base      *)
(*     10^9 (value s * 10^9 + f, 0 <= f < 10^9), since the values of the   *)
(*     program exceed the integers of the model checker.                   *)
(***************************************************************************)
EXTENDS Integers, Sequences, FiniteSets, TLC

VARIABLES
    pc,         \* position of main(): see the actions below
    matches,    \* clap's ArgMatches: [posix, gnu, delimited, cmd]
    launch,     \* result of command.spawn(): << >> before it, else <<result>>
    waited,     \* result of child.wait(): << >> before it, else <<result>>
    exit,       \* the local `exit` (src/main.rs:172): << >> before it is bound
    rusage_rc,  \* what getrusage returned: << >> before the call
    usage,      \* the rusage structure (src/main.rs:111), filled by getrusage
    real_time,  \* start.to(end): [secs, nanos]
    stderr,     \* what was written to stderr: a sequence of reports
    stdout,     \* what was written to stdout: a sequence of items
    status      \* the exit status of tally itself: << >> while it runs

vars == <<pc, matches, launch, waited, exit, rusage_rc, usage, real_time, stderr, stdout, status>>

None == << >>
Some(x) == <<x>>

-----------------------------------------------------------------------------
(* Bounds of the model.                                                    *)

\* longest --delimited argument tried (in characters)
MaxDelimLen == 2
\* largest exit code of the child tried
MaxChildCode == 3
\* largest errno tried for a failed spawn
MaxErrno == 133
\* half-width of the windows of values tried around each threshold
Slack == 1
\* half-width of the windows of memory sizes tried around each threshold
MemSlack == 8
\* largest page-fault / block counter tried
MaxCount == 1
\* largest number of whole seconds tried where every value up to it is
MaxSec == 1
\* processors of the machine: the child's CPU time tried is at most this
\* many times its real time
Cores == 2

-----------------------------------------------------------------------------
(* Numbers.                                                                *)

NanosPerSec == 1000000000
NanosPerMilli == 1000000
NanosPerMicro == 1000
MicrosPerMilli == 1000

Max(a, b) == IF a >= b THEN a ELSE b

\* {x >= 0 : |x - t| <= w}
Around(t, w) == Max(0, t - w) .. (t + w)

\* A u64 nanosecond count from whole seconds and a nanosecond part.
Ns(sec, nanos) ==
    [s |-> sec + (nanos \div NanosPerSec), f |-> nanos % NanosPerSec]

NsZero == [s |-> 0, f |-> 0]

NsAdd(a, b) == Ns(a.s + b.s, a.f + b.f)

\* a <= b on two-limb numbers
NsLeq(a, b) == a.s < b.s \/ (a.s = b.s /\ a.f <= b.f)

RECURSIVE Dec(_)
\* format!("{}", n) of a non-negative integer: its decimal digits
Dec(n) == IF n < 10 THEN <<48 + n>> ELSE Append(Dec(n \div 10), 48 + (n % 10))

RECURSIVE ZeroPad(_, _)
\* the `0w` of a format specification: zeros on the left up to width w
ZeroPad(str, w) == IF Len(str) >= w THEN str ELSE ZeroPad(<<48>> \o str, w)

RECURSIVE SpacePad(_, _)
\* the `>w` of a format specification: spaces on the left up to width w
SpacePad(str, w) == IF Len(str) >= w THEN str ELSE SpacePad(<<32>> \o str, w)

\* format!("{}", n) of a u64 nanosecond count
DecNs(n) == IF n.s = 0 THEN Dec(n.f) ELSE Dec(n.s) \o ZeroPad(Dec(n.f), 9)

\* all strings over the characters S of at most n characters
Strings(S, n) == UNION {[1..k -> S] : k \in 0..n}

-----------------------------------------------------------------------------
(* Command line (src/main.rs:14-109).                                      *)

\* char::is_ascii
is_ascii(c) == c <= 127

\* the validator without its ASCII check
validator_no_ascii_check(v) ==
    LET first == IF Len(v) >= 1 THEN Some(v[1]) ELSE None
    IN  IF first = None
        THEN [ok |-> FALSE, err |-> "no delimiter given"]
        ELSE IF Len(v) >= 2
        THEN [ok |-> FALSE,
              err |-> "only single-character delimiters are supported"]
        ELSE [ok |-> TRUE, err |-> ""]

\* the validator closure of --delimited: Ok(()) or Err(message)
validator(v) ==
    LET first == IF Len(v) >= 1 THEN Some(v[1]) ELSE None
    IN  IF first = None
        THEN [ok |-> FALSE, err |-> "no delimiter given"]
        ELSE IF Len(v) >= 2
        THEN [ok |-> FALSE,
              err |-> "only single-character delimiters are supported"]
        ELSE IF ~is_ascii(first[1])
        THEN [ok |-> FALSE, err |-> "only ASCII delimiters are supported"]
        ELSE [ok |-> TRUE, err |-> ""]

\* the characters --delimited is tried with: ';'  '1'  'e'  'é'
DelimChars == {59, 49, 101, 233}

\* the values of --delimited tried: absent, or any string of DelimChars
DelimArgs == {None} \cup {Some(v) : v \in Strings(DelimChars, MaxDelimLen)}

\* the external subcommand tried: none given (""), or "ls"
Commands == {<< >>, <<108, 115>>}

\* every command line tried
CommandLines ==
    [posix : BOOLEAN, gnu : BOOLEAN, delimited : DelimArgs, cmd : Commands]

-----------------------------------------------------------------------------
(* Launch and wait (src/main.rs:136-188).                                  *)

\* std's decode_error_kind, as far as main() distinguishes kinds:
\* ENOENT (2) is NotFound, EPERM (1) and EACCES (13) are PermissionDenied
ErrorKindOf(errno) ==
    IF errno = 2 THEN "NotFound"
    ELSE IF errno \in {1, 13} THEN "PermissionDenied"
    ELSE "Other"

\* the errors command.spawn() is tried with: every errno, and an error that
\* carries no OS error code (e.g. a NUL byte in the command name)
SpawnErrors ==
    {[ok |-> FALSE, kind |-> ErrorKindOf(n), raw |-> Some(n)] : n \in 1..MaxErrno}
    \cup {[ok |-> FALSE, kind |-> "InvalidInput", raw |-> None]}

\* the result of a spawn that started the child
LaunchOk == [ok |-> TRUE, kind |-> "", raw |-> None]

\* the exit status main() chooses for a failed spawn
SpawnExitCode(e) ==
    IF e.kind = "NotFound" THEN 127
    ELSE IF e.kind = "PermissionDenied" THEN 126
    ELSE IF e.raw # None /\ e.raw[1] > 0 /\ e.raw[1] <= 125 THEN 125
    ELSE 1

\* the results of child.wait(): Ok(status) with status.code() Some(c) (a
\* normal exit) or None (killed by a signal), or Err(_)
WaitResults ==
    {[ok |-> TRUE, code |-> Some(c)] : c \in 0..MaxChildCode}
    \cup {[ok |-> TRUE, code |-> None], [ok |-> FALSE, code |-> None]}

\* a wait that reports a signalled child as a success
ExitOfWaitSignalZero(w) ==
    IF w.ok THEN (IF w.code # None THEN w.code[1] ELSE 0) ELSE 1

\* the value bound to `exit`
ExitOfWait(w) ==
    IF w.ok THEN (IF w.code # None THEN w.code[1] ELSE 1) ELSE 1

-----------------------------------------------------------------------------
(* Measurement (src/main.rs:111-134, 185-204).                             *)

\* the rusage structure as main() initialises it
UsageZero ==
    [ru_utime |-> [tv_sec |-> 0, tv_usec |-> 0],
     ru_stime |-> [tv_sec |-> 0, tv_usec |-> 0],
     ru_maxrss |-> 0, ru_minflt |-> 0, ru_majflt |-> 0,
     ru_inblock |-> 0, ru_oublock |-> 0]

\* the time crate's Duration: whole seconds and the nanoseconds past them
DurationZero == [secs |-> 0, nanos |-> 0]

num_seconds(d) == d.secs
num_minutes(d) == d.secs \div 60
num_hours(d) == d.secs \div 3600
\* Some(total nanoseconds): the model's durations are far below the 2^63 ns
\* at which the crate answers None
num_nanoseconds(d) == Some(Ns(d.secs, d.nanos))

\* the local `ns`: the nanoseconds of real_time past its whole seconds
ns_of(d) ==
    LET total == num_nanoseconds(d)[1]
    IN  (total.s - num_seconds(d)) * NanosPerSec + total.f

\* a timeval in nanoseconds that forgets to scale the microseconds
timeval_ns_unscaled(t) == Ns(t.tv_sec, t.tv_usec)

\* a timeval in nanoseconds: tv_sec * 1_000_000_000 + tv_usec * 1_000
timeval_ns(t) == Ns(t.tv_sec, t.tv_usec * NanosPerMicro)

utime_ns(u) == timeval_ns(u.ru_utime)
stime_ns(u) == timeval_ns(u.ru_stime)
rtime_ns(d) == Ns(num_seconds(d), ns_of(d))

\* the closure ns_to_ms_frac: format!("{}.{:03}", ns / 10^9, (ns % 10^9) / 10^6)
ns_to_ms_frac(n) ==
    Dec(n.s) \o <<46>> \o ZeroPad(Dec(n.f \div NanosPerMilli), 3)

-----------------------------------------------------------------------------
(* POSIX format (src/main.rs:213-220).                                     *)

\* the three lines of eprintln!("real {}\nuser {}\nsys {}", ...)
posix_report(u, d) ==
    << [label |-> "real", value |-> ns_to_ms_frac(rtime_ns(d))],
       [label |-> "user", value |-> ns_to_ms_frac(utime_ns(u))],
       [label |-> "sys", value |-> ns_to_ms_frac(stime_ns(u))] >>

-----------------------------------------------------------------------------
(* GNU format (src/main.rs:221-249).                                       *)

\* the local pretty_time of the GNU branch: [h:]m:ss.mmm
gnu_elapsed(d) ==
    LET t0 == num_seconds(d)
        t1 == t0 % 3600
        t2 == t1 % 60
    IN  (IF t0 \div 3600 > 0 THEN Dec(t0 \div 3600) \o <<58>> ELSE << >>)
        \o Dec(t1 \div 60) \o <<58>>
        \o ZeroPad(Dec(t2), 2)
        \o <<46>> \o ZeroPad(Dec(rtime_ns(d).f \div NanosPerMilli), 3)

\* the integer nearest to a / b (b > 0), a tie going to the even one
RoundDiv(a, b) ==
    LET q == a \div b
        r == a % b
    IN  IF 2 * r > b \/ (2 * r = b /\ q % 2 = 1) THEN q + 1 ELSE q

\* format!("{:.1}", x) of a non-negative x = a / b
Fixed1(a, b) ==
    LET tenths == RoundDiv(10 * a, b)
    IN  Dec(tenths \div 10) \o <<46>> \o Dec(tenths % 10)

\* format!("{:.0}", x) of a non-negative x = a / b
Fixed0(a, b) == Dec(RoundDiv(a, b))

\* the value of a nanosecond count small enough for one integer
NsInt(n) == n.s * NanosPerSec + n.f

\* format!("{:.1}", n as f64 / d as f64): IEEE division never traps; 0/0 is
\* NaN and x/0 is +infinity, which Rust prints as "NaN" and "inf"
f64_ratio_fixed1(n, d) ==
    IF d = NsZero
    THEN IF n = NsZero
         THEN [class |-> "nan", text |-> <<78, 97, 78>>]
         ELSE [class |-> "inf", text |-> <<105, 110, 102>>]
    ELSE [class |-> "finite", text |-> Fixed1(NsInt(n), NsInt(d))]

\* the arguments of the GNU eprintln!, in order
gnu_report(u, d) ==
    [user |-> ns_to_ms_frac(utime_ns(u)),
     system |-> ns_to_ms_frac(stime_ns(u)),
     elapsed |-> gnu_elapsed(d),
     cpu |-> f64_ratio_fixed1(NsAdd(utime_ns(u), stime_ns(u)), rtime_ns(d)),
     text |-> 0, data |-> 0, max |-> u.ru_maxrss,
     inputs |-> u.ru_inblock, outputs |-> u.ru_oublock,
     major |-> u.ru_majflt, minor |-> u.ru_minflt, swaps |-> 0]

-----------------------------------------------------------------------------
(* Delimited format (src/main.rs:250-278), written by the csv crate.       *)

RECURSIVE DoubleQuotes(_)
\* a field with each '"' doubled
DoubleQuotes(field) ==
    IF field = << >> THEN << >>
    ELSE (IF Head(field) = 34 THEN <<34, 34>> ELSE <<Head(field)>>)
         \o DoubleQuotes(Tail(field))

\* the csv writer quotes a field that holds the delimiter, a quote, CR or LF
csv_needs_quotes(field, delim) ==
    \E i \in 1..Len(field) : field[i] \in {delim, 34, 13, 10}

csv_field(field, delim) ==
    IF csv_needs_quotes(field, delim)
    THEN <<34>> \o DoubleQuotes(field) \o <<34>>
    ELSE field

\* a writer that has written nothing
csv_writer == [out |-> << >>, fields_written |-> 0]

\* Writer::write_field: a delimiter before every field but a record's first
csv_write_field(w, field, delim) ==
    [out |-> w.out \o (IF w.fields_written > 0 THEN <<delim>> ELSE << >>)
                   \o csv_field(field, delim),
     fields_written |-> w.fields_written + 1]

RECURSIVE csv_write_fields(_, _, _)
csv_write_fields(w, fields, delim) ==
    IF fields = << >> THEN w
    ELSE csv_write_fields(csv_write_field(w, Head(fields), delim),
                          Tail(fields), delim)

\* Writer::write_record: the fields, then the terminator '\n'
csv_write_record(w, fields, delim) ==
    [out |-> csv_write_fields(w, fields, delim).out \o <<10>>,
     fields_written |-> 0]

\* the field names: "user", "system", "real", "peak_mem", "major_faults",
\* "minor_faults"
name_user == <<117, 115, 101, 114>>
name_system == <<115, 121, 115, 116, 101, 109>>
name_real == <<114, 101, 97, 108>>
name_peak_mem == <<112, 101, 97, 107, 95, 109, 101, 109>>
name_major_faults == <<109, 97, 106, 111, 114, 95, 102, 97, 117, 108, 116, 115>>
name_minor_faults == <<109, 105, 110, 111, 114, 95, 102, 97, 117, 108, 116, 115>>

\* the write_field / write_record pairs of the branch, in order: the name
\* given to write_field and the value given to write_record
delimited_rows(u, d) ==
    << <<name_user, DecNs(utime_ns(u))>>,
       <<name_system, DecNs(stime_ns(u))>>,
       <<name_real, DecNs(rtime_ns(d))>>,
       <<name_peak_mem, Dec(u.ru_maxrss)>>,
       <<name_major_faults, Dec(u.ru_majflt)>>,
       <<name_minor_faults, Dec(u.ru_minflt)>> >>

RECURSIVE csv_write_rows(_, _, _)
csv_write_rows(w, rows, delim) ==
    IF rows = << >> THEN w
    ELSE csv_write_rows(
             csv_write_record(csv_write_field(w, Head(rows)[1], delim),
                              <<Head(rows)[2]>>, delim),
             Tail(rows), delim)

\* the bytes the branch writes to stderr; sep is the --delimited argument,
\* whose first (and, by the validator, only) character is the delimiter
delimited_report(u, d, sep) ==
    LET delim == sep[1]
    IN  csv_write_rows(csv_writer, delimited_rows(u, d), delim).out

-----------------------------------------------------------------------------
(* Human format (src/main.rs:280-376).                                     *)

has_h(u, d) ==
    num_hours(d) > 0 \/ u.ru_utime.tv_sec > 3600 \/ u.ru_stime.tv_sec > 3600
has_m(u, d) ==
    has_h(u, d) \/ num_minutes(d) > 0 \/ u.ru_utime.tv_sec > 60
    \/ u.ru_stime.tv_sec > 60
has_usec(u) ==
    u.ru_utime.tv_usec % 1000 > 0 \/ u.ru_stime.tv_usec % 1000 > 0
has_msec(u) ==
    has_usec(u) \/ u.ru_utime.tv_usec > 1000 \/ u.ru_stime.tv_usec > 1000

\* unit(format!("{:>w}", v), name): one column of a row; "us" stands for the
\* source's micro sign followed by s
Col(v, w, name) == [value |-> v, text |-> SpacePad(Dec(v), w), unit |-> name]

\* the closure pretty_seconds, under the flags of the measurement (u, d)
pretty_seconds(s0, u, d) ==
    LET s1 == s0 % 3600
        s2 == s1 % 60
    IN  (IF has_h(u, d) THEN <<Col(s0 \div 3600, 2, "h")>> ELSE << >>)
        \o (IF has_h(u, d) \/ has_m(u, d)
            THEN <<Col(s1 \div 60, 2, "m")>> ELSE << >>)
        \o <<Col(s2, 2, "s")>>

\* the closure pretty_time: the row of a timeval
pretty_time(t, u, d) ==
    LET usec0 == t.tv_usec
        usec1 == usec0 % 1000
    IN  pretty_seconds(t.tv_sec, u, d)
        \o (IF has_msec(u) THEN <<Col(usec0 \div 1000, 3, "ms")>> ELSE << >>)
        \o (IF has_usec(u) THEN <<Col(usec1, 3, "us")>> ELSE << >>)

\* the closure pretty_time2: the row of the real time
pretty_time2(u, d) ==
    LET ns0 == ns_of(d)
        ns1 == ns0 % 1000
    IN  pretty_seconds(num_seconds(d), u, d)
        \o (IF has_msec(u) THEN <<Col(ns0 \div 1000000, 3, "ms")>> ELSE << >>)
        \o (IF has_usec(u) THEN <<Col(ns0 \div 1000, 3, "us")>> ELSE << >>)
        \o (IF ns1 # 0 THEN <<Col(ns1, 3, "ns")>> ELSE << >>)

\* pretty_mem with each threshold already in the coarser tier
pretty_mem_inclusive(ks) ==
    IF ks >= 10 * 1024 * 1024
    THEN [text |-> Fixed0(ks, 1024 * 1024), decimals |-> 0, unit |-> "GB"]
    ELSE IF ks >= 1024 * 1024
    THEN [text |-> Fixed1(ks, 1024 * 1024), decimals |-> 1, unit |-> "GB"]
    ELSE IF ks >= 10 * 1024
    THEN [text |-> Fixed0(ks, 1024), decimals |-> 0, unit |-> "MB"]
    ELSE IF ks >= 1024
    THEN [text |-> Fixed1(ks, 1024), decimals |-> 1, unit |-> "MB"]
    ELSE [text |-> Dec(ks), decimals |-> 0, unit |-> "kB"]

\* the closure pretty_mem: the number printed, its decimals and its unit
pretty_mem(ks) ==
    IF ks > 10 * 1024 * 1024
    THEN [text |-> Fixed0(ks, 1024 * 1024), decimals |-> 0, unit |-> "GB"]
    ELSE IF ks > 1024 * 1024
    THEN [text |-> Fixed1(ks, 1024 * 1024), decimals |-> 1, unit |-> "GB"]
    ELSE IF ks > 10 * 1024
    THEN [text |-> Fixed0(ks, 1024), decimals |-> 0, unit |-> "MB"]
    ELSE IF ks > 1024
    THEN [text |-> Fixed1(ks, 1024), decimals |-> 1, unit |-> "MB"]
    ELSE [text |-> Dec(ks), decimals |-> 0, unit |-> "kB"]

\* the arguments of the final eprintln!, without the rules and the labels
pretty_report(u, d) ==
    [user |-> pretty_time(u.ru_utime, u, d),
     system |-> pretty_time(u.ru_stime, u, d),
     real |-> pretty_time2(u, d),
     mem |-> pretty_mem(u.ru_maxrss),
     major |-> Dec(u.ru_majflt),
     minor |-> Dec(u.ru_minflt)]

-----------------------------------------------------------------------------
(* The values the environment is tried with in the whole-program           *)
(* specification: what the clock and getrusage report for the child.       *)

Timeval(sec, usec) == [tv_sec |-> sec, tv_usec |-> usec]

SampleDurations == {[secs |-> 0, nanos |-> n] : n \in {0, 5000000}}

SampleUsages ==
    [ru_utime : {Timeval(0, 0), Timeval(0, 1000)},
     ru_stime : {Timeval(0, 0), Timeval(0, 2000)},
     ru_maxrss : {0, 4096}, ru_minflt : {0, 9}, ru_majflt : {0, 1},
     ru_inblock : {0}, ru_oublock : {0}]

-----------------------------------------------------------------------------
(* main() as a state machine.  pc is the place main() has reached:         *)
(*   "parse"     get_matches (line 109)                                    *)
(*   "command"   the subcommand test and the spawn (lines 136-167)         *)
(*   "wait"      child.wait() between the two clock readings (169-183)     *)
(*   "getrusage" the resource query (185-188)                              *)
(*   "dispatch"  the if / else-if chain over the modes (213-278)           *)
(*   "pretty"    the human report after the chain (280-375)                *)
(*   "exit"      the process::exit(exit) that ends the branch taken        *)
(*   "exited"    the process is gone                                       *)

\* where a mode's branch goes without the process::exit that ends it: out of
\* the if / else-if chain, to the human report
after_report_fallthrough == "pretty"

\* where a mode's branch goes once its report is written: process::exit(exit)
after_report == "exit"

Init ==
    /\ pc = "parse"
    /\ matches \in CommandLines
    /\ launch = None
    /\ waited = None
    /\ exit = None
    /\ rusage_rc = None
    /\ usage = UsageZero
    /\ real_time = DurationZero
    /\ stderr = << >>
    /\ stdout = << >>
    /\ status = None

\* line 109: clap runs the validator on the value of --delimited, and on Err
\* prints the error to stderr and exits with status 1
ParseRejects ==
    /\ pc = "parse"
    /\ matches.delimited # None
    /\ ~validator(matches.delimited[1]).ok
    /\ stderr' = Append(stderr, [kind |-> "error",
                                 body |-> validator(matches.delimited[1]).err])
    /\ status' = Some(1)
    /\ pc' = "exited"
    /\ UNCHANGED <<matches, launch, waited, exit, rusage_rc, usage, real_time,
                   stdout>>

ParseAccepts ==
    /\ pc = "parse"
    /\ matches.delimited # None => validator(matches.delimited[1]).ok
    /\ pc' = "command"
    /\ UNCHANGED <<matches, launch, waited, exit, rusage_rc, usage, real_time,
                   stderr, stdout, status>>

\* lines 136-140: no command given
NoCommand ==
    /\ pc = "command"
    /\ matches.cmd = << >>
    /\ stdout' = Append(stdout, "long_help")
    /\ status' = Some(127)
    /\ pc' = "exited"
    /\ UNCHANGED <<matches, launch, waited, exit, rusage_rc, usage, real_time,
                   stderr>>

\* lines 142-148: the child is started
SpawnSucceeds ==
    /\ pc = "command"
    /\ matches.cmd # << >>
    /\ launch' = Some(LaunchOk)
    /\ pc' = "wait"
    /\ UNCHANGED <<matches, waited, exit, rusage_rc, usage, real_time, stderr,
                   stdout, status>>

\* lines 142-167: the spawn fails
SpawnFails ==
    /\ pc = "command"
    /\ matches.cmd # << >>
    /\ \E e \in SpawnErrors :
          /\ launch' = Some(e)
          /\ status' = Some(SpawnExitCode(e))
    /\ pc' = "exited"
    /\ UNCHANGED <<matches, waited, exit, rusage_rc, usage, real_time, stderr,
                   stdout>>

\* lines 169-183
Wait ==
    /\ pc = "wait"
    /\ \E w \in WaitResults, d \in SampleDurations :
          /\ waited' = Some(w)
          /\ exit' = Some(ExitOfWait(w))
          /\ real_time' = d
    /\ pc' = "getrusage"
    /\ UNCHANGED <<matches, launch, rusage_rc, usage, stderr, stdout, status>>

\* lines 185-186: getrusage returns 0 and has filled the structure
GetrusageSucceeds ==
    /\ pc = "getrusage"
    /\ \E u \in SampleUsages : usage' = u
    /\ rusage_rc' = Some(0)
    /\ pc' = "dispatch"
    /\ UNCHANGED <<matches, launch, waited, exit, real_time, stderr, stdout,
                   status>>

\* lines 185-188: getrusage returns -1
GetrusageFails ==
    /\ pc = "getrusage"
    /\ rusage_rc' = Some(-1)
    /\ status' = exit
    /\ pc' = "exited"
    /\ UNCHANGED <<matches, launch, waited, exit, usage, real_time, stderr,
                   stdout>>

\* lines 213-219
PosixBranch ==
    /\ pc = "dispatch"
    /\ matches.posix
    /\ stderr' = Append(stderr, [kind |-> "posix",
                                 body |-> posix_report(usage, real_time)])
    /\ pc' = after_report
    /\ UNCHANGED <<matches, launch, waited, exit, rusage_rc, usage, real_time,
                   stdout, status>>

\* lines 221-248
GnuBranch ==
    /\ pc = "dispatch"
    /\ ~matches.posix
    /\ matches.gnu
    /\ stderr' = Append(stderr, [kind |-> "gnu",
                                 body |-> gnu_report(usage, real_time)])
    /\ pc' = after_report
    /\ UNCHANGED <<matches, launch, waited, exit, rusage_rc, usage, real_time,
                   stdout, status>>

\* lines 250-276
DelimitedBranch ==
    /\ pc = "dispatch"
    /\ ~matches.posix
    /\ ~matches.gnu
    /\ matches.delimited # None
    /\ stderr' = Append(stderr,
                        [kind |-> "delimited",
                         body |-> delimited_report(usage, real_time,
                                                   matches.delimited[1])])
    /\ pc' = after_report
    /\ UNCHANGED <<matches, launch, waited, exit, rusage_rc, usage, real_time,
                   stdout, status>>

\* line 278: no mode was asked for
NoBranch ==
    /\ pc = "dispatch"
    /\ ~matches.posix
    /\ ~matches.gnu
    /\ matches.delimited = None
    /\ pc' = "pretty"
    /\ UNCHANGED <<matches, launch, waited, exit, rusage_rc, usage, real_time,
                   stderr, stdout, status>>

\* lines 280-375
PrettyReport ==
    /\ pc = "pretty"
    /\ stderr' = Append(stderr, [kind |-> "pretty",
                                 body |-> pretty_report(usage, real_time)])
    /\ pc' = "exit"
    /\ UNCHANGED <<matches, launch, waited, exit, rusage_rc, usage, real_time,
                   stdout, status>>

\* lines 220, 249, 277, 376: process::exit(exit)
Exit ==
    /\ pc = "exit"
    /\ status' = exit
    /\ pc' = "exited"
    /\ UNCHANGED <<matches, launch, waited, exit, rusage_rc, usage, real_time,
                   stderr, stdout>>

Next ==
    \/ ParseRejects
    \/ ParseAccepts
    \/ NoCommand
    \/ SpawnSucceeds
    \/ SpawnFails
    \/ Wait
    \/ GetrusageSucceeds
    \/ GetrusageFails
    \/ PosixBranch
    \/ GnuBranch
    \/ DelimitedBranch
    \/ NoBranch
    \/ PrettyReport
    \/ Exit

\* the whole program, for every command line and every answer of the system
Spec == Init /\ [][Next]_vars

-----------------------------------------------------------------------------
(* Properties of the whole program.                                        *)

Modes == {"posix", "gnu", "delimited", "pretty"}

\* the reports on stderr (what is not a report is clap's error message)
Reports == SelectSeq(stderr, LAMBDA r : r.kind \in Modes)

\* clap printed an error
Rejected == \E i \in 1..Len(stderr) : stderr[i].kind = "error"

\* the child was started
Launched == launch # None /\ launch[1].ok

\* the exit status the classification table of the specification gives a
\* failed spawn
TableExitCode(e) ==
    IF e.kind = "NotFound" THEN 127
    ELSE IF e.kind = "PermissionDenied" THEN 126
    ELSE IF e.raw # None /\ e.raw[1] >= 1 /\ e.raw[1] <= 125 THEN e.raw[1]
    ELSE 1

\* C1: when no child is started, the exit status follows the table: 127 for
\* no command or an executable not found, 126 for permission denied, n for a
\* spawn that failed with another OS error n in 1..125, and 1 otherwise.
C1_LaunchFailureStatus ==
    /\ (pc = "exited" /\ ~Rejected /\ launch = None) => status = Some(127)
    /\ (pc = "exited" /\ launch # None /\ ~launch[1].ok)
           => status = Some(TableExitCode(launch[1]))

\* C2: once the child was launched and waited for, tally exits with the
\* child's exit code if it exited normally and with 1 if a signal killed it,
\* in every mode and also when getrusage failed.
C2_ChildStatusPropagated ==
    (pc = "exited" /\ waited # None) =>
        /\ (waited[1].ok /\ waited[1].code # None) => status = waited[1].code
        /\ (waited[1].ok /\ waited[1].code = None) => status = Some(1)

\* C2 witness: a child that exited with a non-zero code, reported in
\* delimited mode, and tally gone with that code
C2_Witness ==
    /\ pc = "exited"
    /\ waited = Some([ok |-> TRUE, code |-> Some(MaxChildCode)])
    /\ Len(Reports) = 1
    /\ Reports[1].kind = "delimited"
    /\ status = Some(MaxChildCode)

\* C3: a report is written if and only if the child was launched and
\* getrusage succeeded; then exactly one renderer runs, once, whatever mode
\* flags are combined, and only the exit follows the report.  No renderer
\* runs on a missing command, a failed launch or a failed getrusage.
C3_OneReportThenExit ==
    /\ Len(Reports) <= 1
    /\ Len(Reports) = 1 =>
           /\ Launched
           /\ rusage_rc = Some(0)
           /\ pc \in {"exit", "exited"}
    /\ pc = "exited" =>
           (Len(Reports) = 1 <=> (Launched /\ rusage_rc = Some(0)))
    /\ (pc = "exited" /\ (launch = None \/ ~Launched \/ rusage_rc = Some(-1)))
           => Len(Reports) = 0

\* C3 witness: all three mode flags given together, one report, process gone
C3_Witness ==
    /\ pc = "exited"
    /\ matches.posix
    /\ matches.gnu
    /\ matches.delimited # None
    /\ Len(Reports) = 1
    /\ status = exit

\* C9: the value of --delimited is accepted if and only if it is exactly one
\* character and that character is ASCII; a rejected value is reported as an
\* error and no child is ever started.
C9_ValidatorOneAsciiChar ==
    (pc # "parse" /\ matches.delimited # None) =>
        LET v == matches.delimited[1]
        IN  /\ Rejected <=> ~(Len(v) = 1 /\ v[1] \in 0..127)
            /\ Rejected =>
                   /\ launch = None
                   /\ pc = "exited"
                   /\ status # Some(0)

\* C9 witness: the single non-ASCII character is rejected, no child started
C9_Witness ==
    /\ pc = "exited"
    /\ matches.delimited = Some(<<233>>)
    /\ Rejected
    /\ launch = None

-----------------------------------------------------------------------------
(* The renderers on their own: each specification below starts main() at   *)
(* the mode dispatch (line 213), after a launch, a wait and a getrusage    *)
(* that succeeded, with one mode chosen and the measurement drawn from a   *)
(* set wide enough for the renderer's cases.                               *)

\* the state at line 213 for the command line m and the measurement (u, d)
AtDispatch(m, u, d) ==
    /\ pc = "dispatch"
    /\ matches = m
    /\ launch = Some(LaunchOk)
    /\ waited = Some([ok |-> TRUE, code |-> Some(0)])
    /\ exit = Some(ExitOfWait([ok |-> TRUE, code |-> Some(0)]))
    /\ rusage_rc = Some(0)
    /\ usage = u
    /\ real_time = d
    /\ stderr = << >>
    /\ stdout = << >>
    /\ status = None

CommandLine(p, g, sep) ==
    [posix |-> p, gnu |-> g, delimited |-> sep, cmd |-> <<108, 115>>]

\* the report written, when there is one
Report == Reports[1]

RECURSIVE NsTimes(_, _)
NsTimes(n, k) == IF k = 0 THEN NsZero ELSE NsAdd(n, NsTimes(n, k - 1))

\* the measurements tried for the modes whose report is checked against the
\* specification's formulas: the child's user + system time is at most
\* Cores times the real time
Plausible(u, d) ==
    NsLeq(NsAdd(timeval_ns(u.ru_utime), timeval_ns(u.ru_stime)),
          NsTimes(Ns(d.secs, d.nanos), Cores))

(* Delimited mode. *)

DelimitedSecs == (0..MaxSec) \cup {3600}
DelimitedUsecs == {0, 1000, 2000, 999999}
DelimitedTimevals == [tv_sec : DelimitedSecs, tv_usec : DelimitedUsecs]
DelimitedSystemTimevals == [tv_sec : 0..MaxSec, tv_usec : {0, 2000}]

DelimitedUsages ==
    [ru_utime : DelimitedTimevals, ru_stime : DelimitedSystemTimevals,
     ru_maxrss : {0, 4096}, ru_minflt : {0, 9}, ru_majflt : 0..MaxCount,
     ru_inblock : {0}, ru_oublock : {0}]

DelimitedDurations == [secs : 0..MaxSec, nanos : {0, 5000000, 999999999}]

\* the separators the validator accepts, among those tried
ValidSeparators == {Some(<<c>>) : c \in {x \in DelimChars : is_ascii(x)}}

InitDelimited ==
    \E sep \in ValidSeparators, u \in DelimitedUsages, d \in DelimitedDurations :
        AtDispatch(CommandLine(FALSE, FALSE, sep), u, d)

NextDelimited == DelimitedBranch \/ Exit

SpecDelimited == InitDelimited /\ [][NextDelimited]_vars

(* A reader of delimited text, to read back what the writer wrote. *)

RECURSIVE SplitLines(_, _, _)
\* the lines of a text, each ended by '\n'; what follows the last '\n' is
\* one more, unfinished, line
SplitLines(bytes, cur, acc) ==
    IF bytes = << >> THEN (IF cur = << >> THEN acc ELSE Append(acc, cur))
    ELSE IF Head(bytes) = 10 THEN SplitLines(Tail(bytes), << >>, Append(acc, cur))
    ELSE SplitLines(Tail(bytes), Append(cur, Head(bytes)), acc)

RECURSIVE ReadFields(_, _, _, _, _, _)
\* the columns of a line: split at the delimiter outside quotes; a column
\* that starts with '"' runs to the closing '"', with "" read as one '"'
ReadFields(line, delim, i, inq, cur, acc) ==
    IF i > Len(line) THEN Append(acc, cur)
    ELSE IF inq
    THEN IF line[i] = 34
         THEN IF i < Len(line) /\ line[i + 1] = 34
              THEN ReadFields(line, delim, i + 2, TRUE, Append(cur, 34), acc)
              ELSE ReadFields(line, delim, i + 1, FALSE, cur, acc)
         ELSE ReadFields(line, delim, i + 1, TRUE, Append(cur, line[i]), acc)
    ELSE IF line[i] = 34 /\ cur = << >>
    THEN ReadFields(line, delim, i + 1, TRUE, cur, acc)
    ELSE IF line[i] = delim
    THEN ReadFields(line, delim, i + 1, FALSE, << >>, Append(acc, cur))
    ELSE ReadFields(line, delim, i + 1, FALSE, Append(cur, line[i]), acc)

Columns(line, delim) == ReadFields(line, delim, 1, FALSE, << >>, << >>)

IsNumeral(str) == Len(str) >= 1 /\ \A i \in 1..Len(str) : str[i] \in 48..57

RECURSIVE NumeralValue(_)
\* the value of a numeral of at most 9 digits
NumeralValue(str) ==
    IF str = << >> THEN 0
    ELSE 10 * NumeralValue(SubSeq(str, 1, Len(str) - 1)) + (str[Len(str)] - 48)

\* the value of a numeral of at most 18 digits, as a two-limb number
NumeralNs(str) ==
    IF Len(str) <= 9 THEN [s |-> 0, f |-> NumeralValue(str)]
    ELSE [s |-> NumeralValue(SubSeq(str, 1, Len(str) - 9)),
          f |-> NumeralValue(SubSeq(str, Len(str) - 8, Len(str)))]

\* the six rows a delimited report must hold: the metric's name and its
\* value, the times in nanoseconds
ExpectedRows ==
    << <<name_user,
         [s |-> usage.ru_utime.tv_sec, f |-> usage.ru_utime.tv_usec * 1000]>>,
       <<name_system,
         [s |-> usage.ru_stime.tv_sec, f |-> usage.ru_stime.tv_usec * 1000]>>,
       <<name_real, [s |-> real_time.secs, f |-> real_time.nanos]>>,
       <<name_peak_mem, [s |-> 0, f |-> usage.ru_maxrss]>>,
       <<name_major_faults, [s |-> 0, f |-> usage.ru_majflt]>>,
       <<name_minor_faults, [s |-> 0, f |-> usage.ru_minflt]>> >>

\* C4: a delimited report is exactly six rows, in the order user, system,
\* real, peak_mem, major_faults, minor_faults; each row reads back as two
\* columns split at the chosen separator, the metric's name and then its
\* value: the full nanosecond count for the three times (seconds * 10^9 +
\* microseconds * 10^3 for user and system) and the counter of getrusage
\* unchanged for the other three, zero counters included.
C4_DelimitedSixRows ==
    (Len(Reports) = 1 /\ Report.kind = "delimited") =>
        LET delim == matches.delimited[1][1]
            body == Report.body
            lines == SplitLines(body, << >>, << >>)
        IN  /\ body # << >>
            /\ body[Len(body)] = 10
            /\ Len(lines) = 6
            /\ \A i \in 1..6 :
                   LET cols == Columns(lines[i], delim)
                   IN  /\ Len(cols) = 2
                       /\ cols[1] = ExpectedRows[i][1]
                       /\ IsNumeral(cols[2])
                       /\ NumeralNs(cols[2]) = ExpectedRows[i][2]

\* C4 witness: the measurement user = 1_000_000 ns, system = 2_000_000 ns,
\* real = 5_000_000 ns, max_rss = 4096, major = 1, minor = 9 under ';' has
\* written the six lines user;1000000 system;2000000 real;5000000
\* peak_mem;4096 major_faults;1 minor_faults;9
C4_Witness ==
    /\ pc = "exited"
    /\ matches.delimited = Some(<<59>>)
    /\ usage.ru_utime = Timeval(0, 1000)
    /\ usage.ru_stime = Timeval(0, 2000)
    /\ real_time = [secs |-> 0, nanos |-> 5000000]
    /\ Len(Reports) = 1
    /\ Report.kind = "delimited"
    /\ Report.body = <<
        117, 115, 101, 114, 59, 49, 48, 48, 48, 48, 48, 48, 10, 115, 121,
        115, 116, 101, 109, 59, 50, 48, 48, 48, 48, 48, 48, 10, 114, 101,
        97, 108, 59, 53, 48, 48, 48, 48, 48, 48, 10, 112, 101, 97, 107, 95,
        109, 101, 109, 59, 52, 48, 57, 54, 10, 109, 97, 106, 111, 114, 95,
        102, 97, 117, 108, 116, 115, 59, 49, 10, 109, 105, 110, 111, 114,
        95, 102, 97, 117, 108, 116, 115, 59, 57, 10
       >>

-----------------------------------------------------------------------------
(* POSIX mode. *)

PosixSecs == (0..MaxSec) \cup {3600}
PosixUsecs == {0, 1, 1000, 1500, 120000, 999999}
PosixTimevals == [tv_sec : PosixSecs, tv_usec : PosixUsecs]
PosixSystemTimevals == [tv_sec : {0}, tv_usec : {0, 2000}]

PosixUsages ==
    [ru_utime : PosixTimevals, ru_stime : PosixSystemTimevals,
     ru_maxrss : {0}, ru_minflt : {0}, ru_majflt : {0},
     ru_inblock : {0}, ru_oublock : {0}]

PosixDurations == [secs : 0..MaxSec, nanos : {0, 1, 5000000, 999999999}]

InitPosix ==
    \E u \in PosixUsages, d \in PosixDurations :
        Plausible(u, d) /\ AtDispatch(CommandLine(TRUE, FALSE, None), u, d)

NextPosix == PosixBranch \/ Exit

SpecPosix == InitPosix /\ [][NextPosix]_vars

\* the position of the first '.' of a string, 0 if it has none
DotAt(str) ==
    IF \E i \in 1..Len(str) : str[i] = 46
    THEN CHOOSE i \in 1..Len(str) :
             str[i] = 46 /\ \A j \in 1..(i - 1) : str[j] # 46
    ELSE 0

IntPart(str) == SubSeq(str, 1, DotAt(str) - 1)
FracPart(str) == SubSeq(str, DotAt(str) + 1, Len(str))

RECURSIVE Pow10(_)
Pow10(k) == IF k = 0 THEN 1 ELSE 10 * Pow10(k - 1)

\* the nanoseconds a decimal number of seconds "i.f" (f of at most 9 digits)
\* stands for
SecondsToNs(str) ==
    [s |-> NumeralValue(IntPart(str)),
     f |-> NumeralValue(FracPart(str)) * Pow10(9 - Len(FracPart(str)))]

\* a and b differ by at most one nanosecond
WithinOneNs(a, b) ==
    /\ NsLeq(a, NsAdd(b, [s |-> 0, f |-> 1]))
    /\ NsLeq(b, NsAdd(a, [s |-> 0, f |-> 1]))

\* the three durations of the measurement, in the order of the POSIX lines
PosixDurationsNs ==
    << [s |-> real_time.secs, f |-> real_time.nanos],
       [s |-> usage.ru_utime.tv_sec, f |-> usage.ru_utime.tv_usec * 1000],
       [s |-> usage.ru_stime.tv_sec, f |-> usage.ru_stime.tv_usec * 1000] >>

\* C5: each of the three POSIX lines (real, user, sys) reads back, as a
\* decimal number of seconds, to the duration it was written from to within
\* one nanosecond; its fraction has at least one digit and no trailing zero.
C5_PosixRoundTrip ==
    (Len(Reports) = 1 /\ Report.kind = "posix") =>
        \A i \in 1..3 :
            LET str == Report.body[i].value
                frac == FracPart(str)
            IN  /\ DotAt(str) > 1
                /\ IsNumeral(IntPart(str))
                /\ IsNumeral(frac)
                /\ (Len(frac) = 1 \/ frac[Len(frac)] # 48)
                /\ WithinOneNs(SecondsToNs(str), PosixDurationsNs[i])

-----------------------------------------------------------------------------
(* GNU mode. *)

GnuUsecs == {0, 500, 1000}
GnuTimevals == [tv_sec : {0}, tv_usec : GnuUsecs]

GnuUsages ==
    [ru_utime : GnuTimevals, ru_stime : GnuTimevals,
     ru_maxrss : {0, 4096}, ru_minflt : {0}, ru_majflt : {0},
     ru_inblock : 0..MaxCount, ru_oublock : {0}]

GnuDurations == [secs : {0}, nanos : {0, 1000000, 4000000, 8000000}]

InitGnu ==
    \E u \in GnuUsages, d \in GnuDurations :
        Plausible(u, d) /\ AtDispatch(CommandLine(FALSE, TRUE, None), u, d)

NextGnu == GnuBranch \/ Exit

SpecGnu == InitGnu /\ [][NextGnu]_vars

\* user + system time of the measurement, in nanoseconds
CpuNs == (usage.ru_utime.tv_usec + usage.ru_stime.tv_usec) * 1000
        + (usage.ru_utime.tv_sec + usage.ru_stime.tv_sec) * NanosPerSec

\* real time of the measurement, in nanoseconds
RealNs == real_time.secs * NanosPerSec + real_time.nanos

\* C6: the GNU report's %P is (user + system) / real * 100 (printed with one
\* decimal), and with a real time of 0 ns the number printed is still a
\* defined, finite percentage.
C6_GnuCpuPercent ==
    (Len(Reports) = 1 /\ Report.kind = "gnu") =>
        /\ Report.body.cpu.class = "finite"
        /\ (RealNs # 0 => Report.body.cpu.text = Fixed1(100 * CpuNs, RealNs))

-----------------------------------------------------------------------------
(* Human mode: the duration rows. *)

\* seconds, microseconds and nanoseconds around the thresholds of the rows
PrettySecs == Around(0, Slack) \cup Around(60, Slack) \cup Around(3600, Slack)
PrettyUsecs == Around(0, Slack) \cup Around(MicrosPerMilli, Slack) \cup {999999}
PrettyNanos == Around(0, Slack) \cup {1000, 1500, NanosPerMilli, 999999999}
PrettyTimevals == [tv_sec : PrettySecs, tv_usec : PrettyUsecs]

PrettyUsages ==
    [ru_utime : PrettyTimevals, ru_stime : PrettyTimevals,
     ru_maxrss : {0}, ru_minflt : {0}, ru_majflt : {0},
     ru_inblock : {0}, ru_oublock : {0}]

PrettyDurations == [secs : PrettySecs, nanos : PrettyNanos]

InitPretty ==
    \E u \in PrettyUsages, d \in PrettyDurations :
        Plausible(u, d) /\ AtDispatch(CommandLine(FALSE, FALSE, None), u, d)

NextPretty == NoBranch \/ PrettyReport \/ Exit

SpecPretty == InitPretty /\ [][NextPretty]_vars

\* the three duration rows of a human report: user, system, real
Rows == <<Report.body.user, Report.body.system, Report.body.real>>

\* the whole seconds each row stands for
RowSeconds ==
    <<usage.ru_utime.tv_sec, usage.ru_stime.tv_sec, real_time.secs>>

\* the units of the columns of a row
Units(row) == {row[i].unit : i \in 1..Len(row)}

SubSecond == {"ms", "us", "ns"}

\* the value a row shows in the column of a unit, 0 if it has no such column
ColumnValue(row, name) ==
    IF name \in Units(row)
    THEN row[CHOOSE i \in 1..Len(row) : row[i].unit = name].value
    ELSE 0

\* a duration of the measurement has a non-zero microsecond component
NeedsMicros ==
    \/ usage.ru_utime.tv_usec % 1000 # 0
    \/ usage.ru_stime.tv_usec % 1000 # 0
    \/ (real_time.nanos \div 1000) % 1000 # 0

\* C7: the human report keeps its three duration rows at one precision: if
\* one of user, system and real has a non-zero microsecond component, every
\* row has at least a millisecond column, and the sub-second columns (ms,
\* us, ns) shown are the same on the three rows.
C7_PrettyRowsOnePrecision ==
    (Len(Reports) = 1 /\ Report.kind = "pretty") =>
        /\ NeedsMicros => \A i \in 1..3 : "ms" \in Units(Rows[i])
        /\ \A i, j \in 1..3 :
               Units(Rows[i]) \cap SubSecond = Units(Rows[j]) \cap SubSecond

\* the range of the value of a column, by its unit
InRange(col) ==
    CASE col.unit = "h" -> col.value >= 0
      [] col.unit \in {"m", "s"} -> col.value \in 0..59
      [] OTHER -> col.value \in 0..999

\* C10: the duration rows of the human report are a lossless mixed-radix
\* decomposition: there is an hour column whenever one of user, system and
\* real is at least 3600 s and a minute column whenever one is at least
\* 60 s; on every row each component shown is within the range of its unit
\* and hours * 3600 + minutes * 60 + seconds is the row's whole seconds.
C10_PrettyRowsLossless ==
    (Len(Reports) = 1 /\ Report.kind = "pretty") =>
        /\ (\E i \in 1..3 : RowSeconds[i] >= 3600)
               => \A i \in 1..3 : "h" \in Units(Rows[i])
        /\ (\E i \in 1..3 : RowSeconds[i] >= 60)
               => \A i \in 1..3 : "m" \in Units(Rows[i])
        /\ \A i \in 1..3 :
               /\ \A k \in 1..Len(Rows[i]) : InRange(Rows[i][k])
               /\ RowSeconds[i]
                      = ColumnValue(Rows[i], "h") * 3600
                        + ColumnValue(Rows[i], "m") * 60
                        + ColumnValue(Rows[i], "s")

-----------------------------------------------------------------------------
(* Human mode: the memory row. *)

MemThresholds == {1024, 10 * 1024, 1024 * 1024, 10 * 1024 * 1024}

MemSamples ==
    {0, 2048, 11000000} \cup UNION {Around(t, MemSlack) : t \in MemThresholds}

MemUsages ==
    [ru_utime : {Timeval(0, 0)}, ru_stime : {Timeval(0, 0)},
     ru_maxrss : MemSamples, ru_minflt : {0}, ru_majflt : {0},
     ru_inblock : {0}, ru_oublock : {0}]

InitMem ==
    \E u \in MemUsages :
        AtDispatch(CommandLine(FALSE, FALSE, None), u, DurationZero)

SpecMem == InitMem /\ [][NextPretty]_vars

\* unit and decimals of a tier
Tier(name, decimals) == [unit |-> name, decimals |-> decimals]

\* the tier of the memory row of the report
ShownTier == Tier(Report.body.mem.unit, Report.body.mem.decimals)

\* C8 as stated: the tier of pretty_mem changes exactly at 1024, 10 * 1024,
\* 1024 * 1024 and 10 * 1024 * 1024 kB, a value equal to a threshold being
\* already in the coarser tier.
C8_MemTiersInclusive ==
    (Len(Reports) = 1 /\ Report.kind = "pretty") =>
        LET ks == usage.ru_maxrss
        IN  ShownTier =
                IF ks < 1024 THEN Tier("kB", 0)
                ELSE IF ks < 10 * 1024 THEN Tier("MB", 1)
                ELSE IF ks < 1024 * 1024 THEN Tier("MB", 0)
                ELSE IF ks < 10 * 1024 * 1024 THEN Tier("GB", 1)
                ELSE Tier("GB", 0)

\* C8 amended: the tiers are kB (integer), MB with one decimal, MB with no
\* decimal, GB with one decimal and GB with no decimal, and a value moves to
\* the coarser tier only once it exceeds 1024, 10 * 1024, 1024 * 1024 or
\* 10 * 1024 * 1024 kB (a value equal to a threshold is still in the finer
\* tier); 0 is "0 kB", 2048 is "2.0 MB" and 11_000_000 is "10 GB".
C8_MemTiersExclusive ==
    (Len(Reports) = 1 /\ Report.kind = "pretty") =>
        LET ks == usage.ru_maxrss
            mem == Report.body.mem
        IN  /\ ShownTier =
                   IF ks <= 1024 THEN Tier("kB", 0)
                   ELSE IF ks <= 10 * 1024 THEN Tier("MB", 1)
                   ELSE IF ks <= 1024 * 1024 THEN Tier("MB", 0)
                   ELSE IF ks <= 10 * 1024 * 1024 THEN Tier("GB", 1)
                   ELSE Tier("GB", 0)
            /\ ks = 0 => mem.text = <<48>>
            /\ ks = 2048 => mem.text = <<50, 46, 48>>
            /\ ks = 11000000 => mem.text = <<49, 48>>

\* C8 witness: exactly 1024 kB has been reported in kB
C8_Witness ==
    /\ pc = "exited"
    /\ usage.ru_maxrss = 1024
    /\ Len(Reports) = 1
    /\ Report.kind = "pretty"
    /\ Report.body.mem = [text |-> <<49, 48, 50, 52>>, decimals |-> 0,
                          unit |-> "kB"]

====
